---- MODULE Spec2Model ----
(***************************************************************************)
(* Model of wyoming_rhasspy_speech/web_server.py: the streamed background  *)
(* jobs behind POST /api/train and POST /api/download.                     *)
(*                                                                         *)
(* /api/train: api_train pops the cached transcriber under                 *)
(* state.transcribers_lock and returns a Response over the generator       *)
(* do_training; the generator attaches a QueueHandler to the shared        *)
(* "rhasspy_speech" logger, yields "Training started", starts train_model  *)
(* on a daemon thread and drains log_queue until the None sentinel.        *)
(* /api/download: the generator download_model runs the whole download on  *)
(* the thread that iterates the response.                                  *)
(***************************************************************************)
EXTENDS Integers, Sequences, FiniteSets, TLC

\* ------------------------------------------------------------------ bounds
\* records the training job bodies may log, all jobs together
MaxLines == 2
\* non-empty chunks one download may read
MaxChunks == 2
\* seconds between two readings of time.monotonic()
MaxDelta == 2

\* The requests in flight, numbered in the order the server accepts them.
Requests == {1, 2}
NoOne == 0

\* model ids a client may send with /api/train
TrainIds == {"en-test", "fr-test"}

\* messages of the exceptions the training job body may raise
WorkerErrors == {"kaldi binary not found"}
\* message of the RuntimeError of Thread.start()
ThreadError == "can't start new thread"

VARIABLES
    transcribers,   \* keys of state.transcribers (model ids with a cached transcriber)
    lock,           \* holder of state.transcribers_lock, NoOne when free
    handlers,       \* requests whose QueueHandler is attached to the "rhasspy_speech" logger
    endpoint,       \* per request: "none", "train", "download"
    model_id,       \* per request: request.args["id"]
    pc,             \* per request: position of the view function / generator
    stream,         \* per request: chunks the generator has yielded so far
    log_queue,      \* per request: items of its Queue()
    worker,         \* per request: position of the train_model thread
    outcome,        \* per request: how the body of train_model ended ("" = not yet)
    emitted,        \* per request: number of records the job body has logged
    err,            \* per request: message of the exception its generator caught ("" = none)
    dl              \* per request: the locals of download_model

vars == <<transcribers, lock, handlers, endpoint, model_id, pc, stream,
          log_queue, worker, outcome, emitted, err, dl>>

\* the variables only /api/train touches, and those only /api/download touches
trainVars == <<transcribers, lock, handlers, log_queue, worker, outcome, emitted>>

\* ------------------------------------------------------------------ chunks
\* A chunk is what one yield hands to the WSGI server: the text (kind plus
\* its arguments) and whether the yielded string ends in "\n".
Chunk(kind, n, m, msg, nl) == [kind |-> kind, n |-> n, m |-> m, msg |-> msg, nl |-> nl]

\* "Training started\n"
StartedChunk == Chunk("Training started", 0, 0, "", TRUE)
\* "Training complete\n"
CompleteChunk == Chunk("Training complete", 0, 0, "", TRUE)
\* log_item.getMessage() + "\n"; the record is the m-th one logged by job n
LogChunk(item) == Chunk("log", item[1], item[2], "", TRUE)
\* f"ERROR: {err}"
ErrorChunk(msg) == Chunk("ERROR: ", 0, 0, msg, FALSE)

\* ------------------------------------------------------------------ queue
\* The end-of-stream sentinel put by train_model's finally clause.
None == <<0, 0>>

\* (mutant) a bounded queue: Queue(maxsize=1)
maxsize_bounded == 1

\* Queue() is built without maxsize: 0 means unbounded.
maxsize == 0

Full(q) == maxsize > 0 /\ Len(q) >= maxsize

\* (mutant) a LIFO queue
Put_lifo(q, item) == <<item>> \o q

\* Queue.put: FIFO append
Put(q, item) == Append(q, item)

\* QueueHandler.enqueue is put_nowait: a full queue drops the record
\* (Handler.handleError), it never blocks or raises into the logging thread.
PutNowait(q, item) == IF Full(q) THEN q ELSE Put(q, item)

\* Logger.callHandlers: a record logged under "rhasspy_speech" is handed to
\* every handler attached to that logger.
CallHandlers(queues, hs, item) ==
    [r \in Requests |-> IF r \in hs THEN PutNowait(queues[r], item) ELSE queues[r]]

\* (mutant) state.transcribers.clear()
Pop_clear(d, k) == {}

\* state.transcribers.pop(model_id, None)
Pop(d, k) == d \ {k}

\* total_bytes is Optional[int]: <<>> is None, <<n>> is n. monotonic is the
\* latest value time.monotonic() returned. Two fields record history: read_times,
\* the current_time of every pass of the loop, and report_times, the reading at
\* the start of the loop followed by the current_time of every progress line.
NoLocals ==
    [total_bytes |-> <<>>, bytes_downloaded |-> 0, chunk |-> 0, nchunks |-> 0,
     last_report_time |-> 0, monotonic |-> 0, read_times |-> <<>>, report_times |-> <<>>]

\* ------------------------------------------------------------------ init
Init ==
    /\ transcribers = TrainIds
    /\ lock = NoOne
    /\ handlers = {}
    /\ endpoint = [r \in Requests |-> "none"]
    /\ model_id = [r \in Requests |-> ""]
    /\ pc = [r \in Requests |-> "idle"]
    /\ stream = [r \in Requests |-> <<>>]
    /\ log_queue = [r \in Requests |-> <<>>]
    /\ worker = [r \in Requests |-> "none"]
    /\ outcome = [r \in Requests |-> ""]
    /\ emitted = [r \in Requests |-> 0]
    /\ err = [r \in Requests |-> ""]
    /\ dl = [r \in Requests |-> NoLocals]

RECURSIVE SumOver(_, _)
SumOver(f, S) ==
    IF S = {} THEN 0
    ELSE LET x == CHOOSE y \in S : TRUE IN f[x] + SumOver(f, S \ {x})

IsTrain(r) == endpoint[r] = "train"

IsDownload(r) == endpoint[r] = "download"

\* Requests are numbered by arrival.
Arrives(r) == \A q \in Requests : q < r => pc[q] # "idle"

\* ------------------------------------------------------------ /api/train
\* api_train entered: model_id = request.args["id"], next is `async with`.
\* Model ids are interchangeable: the first training request names "en-test",
\* a later one the same id or another.
ApiTrain(r, k) ==
    /\ pc[r] = "idle"
    /\ Arrives(r)
    /\ (\A q \in Requests : ~IsTrain(q)) => k = "en-test"
    /\ endpoint' = [endpoint EXCEPT ![r] = "train"]
    /\ model_id' = [model_id EXCEPT ![r] = k]
    /\ pc' = [pc EXCEPT ![r] = "t_acquire"]
    /\ UNCHANGED <<transcribers, lock, handlers, stream, log_queue, worker, outcome, emitted, err, dl>>

\* async with state.transcribers_lock: __aenter__
Acquire(r) ==
    /\ pc[r] = "t_acquire"
    /\ lock = NoOne
    /\ lock' = r
    /\ pc' = [pc EXCEPT ![r] = "t_locked"]
    /\ UNCHANGED <<transcribers, handlers, endpoint, model_id, stream, log_queue, worker, outcome, emitted, err, dl>>

\* state.transcribers.pop(model_id, None)
Invalidate(r) ==
    /\ pc[r] = "t_locked"
    /\ transcribers' = Pop(transcribers, model_id[r])
    /\ pc' = [pc EXCEPT ![r] = "t_release"]
    /\ UNCHANGED <<lock, handlers, endpoint, model_id, stream, log_queue, worker, outcome, emitted, err, dl>>

\* (mutant) the lock is acquired without `async with` and never released
Release_leak(r) ==
    /\ pc[r] = "t_release"
    /\ pc' = [pc EXCEPT ![r] = "t_response"]
    /\ UNCHANGED <<transcribers, lock, handlers, endpoint, model_id, stream, log_queue, worker, outcome, emitted, err, dl>>

\* __aexit__ releases the lock; then `return Response(do_training(), ...)`:
\* the generator object exists but none of its code has run.
Release(r) ==
    /\ pc[r] = "t_release"
    /\ lock' = NoOne
    /\ pc' = [pc EXCEPT ![r] = "t_response"]
    /\ UNCHANGED <<transcribers, handlers, endpoint, model_id, stream, log_queue, worker, outcome, emitted, err, dl>>

\* First next() of do_training: Queue(), addHandler, yield "Training started\n".
TrainBegin(r) ==
    /\ pc[r] = "t_response"
    /\ log_queue' = [log_queue EXCEPT ![r] = <<>>]
    /\ handlers' = handlers \cup {r}
    /\ stream' = [stream EXCEPT ![r] = Append(@, StartedChunk)]
    /\ pc' = [pc EXCEPT ![r] = "t_y_started"]
    /\ UNCHANGED <<transcribers, lock, endpoint, model_id, worker, outcome, emitted, err, dl>>

\* Resumed after "Training started": Thread(...).start(), then log_queue.get().
StartThread(r) ==
    /\ pc[r] = "t_y_started"
    /\ worker' = [worker EXCEPT ![r] = "body"]
    /\ pc' = [pc EXCEPT ![r] = "t_get"]
    /\ UNCHANGED <<transcribers, lock, handlers, endpoint, model_id, stream, log_queue, outcome, emitted, err, dl>>

\* (mutant) the exception is swallowed: no line is yielded
OnException_silent(s, msg) == s

\* What the except clause of a generator does with the chunks so far.
OnException(s, msg) == Append(s, ErrorChunk(msg))

\* Thread.start() raises RuntimeError: caught by `except Exception`.
StartThreadFails(r) ==
    /\ pc[r] = "t_y_started"
    /\ err' = [err EXCEPT ![r] = ThreadError]
    /\ stream' = [stream EXCEPT ![r] = OnException(@, ThreadError)]
    /\ pc' = [pc EXCEPT ![r] = "t_y_error"]
    /\ UNCHANGED <<transcribers, lock, handlers, endpoint, model_id, log_queue, worker, outcome, emitted, dl>>

\* log_queue.get() returns a record: yield log_item.getMessage() + "\n"
GetLine(r) ==
    /\ pc[r] = "t_get"
    /\ log_queue[r] # <<>>
    /\ Head(log_queue[r]) # None
    /\ stream' = [stream EXCEPT ![r] = Append(@, LogChunk(Head(log_queue[r])))]
    /\ log_queue' = [log_queue EXCEPT ![r] = Tail(@)]
    /\ pc' = [pc EXCEPT ![r] = "t_y_line"]
    /\ UNCHANGED <<transcribers, lock, handlers, endpoint, model_id, worker, outcome, emitted, err, dl>>

\* log_queue.get() returns None: break, yield "Training complete\n"
GetSentinel(r) ==
    /\ pc[r] = "t_get"
    /\ log_queue[r] # <<>>
    /\ Head(log_queue[r]) = None
    /\ stream' = [stream EXCEPT ![r] = Append(@, CompleteChunk)]
    /\ log_queue' = [log_queue EXCEPT ![r] = Tail(@)]
    /\ pc' = [pc EXCEPT ![r] = "t_y_complete"]
    /\ UNCHANGED <<transcribers, lock, handlers, endpoint, model_id, worker, outcome, emitted, err, dl>>

\* Resumed after a log line: back to log_queue.get().
ResumeLine(r) ==
    /\ pc[r] = "t_y_line"
    /\ pc' = [pc EXCEPT ![r] = "t_get"]
    /\ UNCHANGED <<transcribers, lock, handlers, endpoint, model_id, stream, log_queue, worker, outcome, emitted, err, dl>>

\* Resumed after the last yield: finally: logger.removeHandler(handler).
TrainEnd(r) ==
    /\ pc[r] \in {"t_y_complete", "t_y_error"}
    /\ handlers' = handlers \ {r}
    /\ pc' = [pc EXCEPT ![r] = "done"]
    /\ UNCHANGED <<transcribers, lock, endpoint, model_id, stream, log_queue, worker, outcome, emitted, err, dl>>

TrainYields == {"t_y_started", "t_y_line", "t_y_complete", "t_y_error"}

\* (mutant) removeHandler after the loop instead of in a finally clause
CloseTrain_leak(r) ==
    /\ pc[r] \in TrainYields \cup {"t_response"}
    /\ pc' = [pc EXCEPT ![r] = "closed"]
    /\ UNCHANGED <<transcribers, lock, handlers, endpoint, model_id, stream, log_queue, worker, outcome, emitted, err, dl>>

\* The client is gone: the server closes the response iterable. A generator
\* suspended at a yield gets GeneratorExit there (not an Exception: only the
\* finally clause runs); a generator that never ran is just marked closed.
CloseTrain(r) ==
    /\ pc[r] \in TrainYields \cup {"t_response"}
    /\ handlers' = handlers \ {r}
    /\ pc' = [pc EXCEPT ![r] = "closed"]
    /\ UNCHANGED <<transcribers, lock, endpoint, model_id, stream, log_queue, worker, outcome, emitted, err, dl>>

\* ---------------------------------------------------------- train_model
\* records logged so far by all training jobs
Logged == SumOver(emitted, Requests)

\* rhasspy_speech.train_model logs a record under the "rhasspy_speech" logger.
Log(r) ==
    /\ worker[r] = "body"
    /\ Logged < MaxLines
    /\ emitted' = [emitted EXCEPT ![r] = @ + 1]
    /\ log_queue' = CallHandlers(log_queue, handlers, <<r, emitted[r] + 1>>)
    /\ UNCHANGED <<transcribers, lock, handlers, endpoint, model_id, pc, stream, worker, outcome, err, dl>>

\* The try body runs to its end.
BodyReturns(r) ==
    /\ worker[r] = "body"
    /\ outcome' = [outcome EXCEPT ![r] = "returned"]
    /\ worker' = [worker EXCEPT ![r] = "finally"]
    /\ UNCHANGED <<transcribers, lock, handlers, endpoint, model_id, pc, stream, log_queue, emitted, err, dl>>

\* The try body raises (at any point) an exception with message msg.
BodyRaises(r, msg) ==
    /\ worker[r] = "body"
    /\ outcome' = [outcome EXCEPT ![r] = msg]
    /\ worker' = [worker EXCEPT ![r] = "finally"]
    /\ UNCHANGED <<transcribers, lock, handlers, endpoint, model_id, pc, stream, log_queue, emitted, err, dl>>

\* (mutant) put(None) after the body instead of in a finally clause
OnExit_no_finally(q, how) == IF how = "returned" THEN Append(q, None) ELSE q

\* What train_model's exit path does to its queue, given how the body ended.
OnExit(q, how) == Put(q, None)

\* (mutant) the sentinel goes to every queue that is fed by the logger
PutSentinel_broadcast(r) ==
    /\ worker[r] = "finally"
    /\ log_queue' = [q \in Requests |->
                        IF q = r \/ q \in handlers THEN Append(log_queue[q], None) ELSE log_queue[q]]
    /\ worker' = [worker EXCEPT ![r] = "exited"]
    /\ UNCHANGED <<transcribers, lock, handlers, endpoint, model_id, pc, stream, outcome, emitted, err, dl>>

\* finally: log_queue.put(None); the thread ends (an exception of the body
\* goes on to threading.excepthook, nobody else sees it).
PutSentinel(r) ==
    /\ worker[r] = "finally"
    /\ ~Full(log_queue[r])
    /\ log_queue' = [log_queue EXCEPT ![r] = OnExit(@, outcome[r])]
    /\ worker' = [worker EXCEPT ![r] = "exited"]
    /\ UNCHANGED <<transcribers, lock, handlers, endpoint, model_id, pc, stream, outcome, emitted, err, dl>>

\* --------------------------------------------------------- /api/download
\* ids with an entry in MODELS, and the ids a client may send
MODELS == {"en-test", "fr-test"}
DownloadIds == {"en-test", "xx-unknown"}

DOWNLOAD_CHUNK_SIZE == 10240
\* lengths model_response.read(DOWNLOAD_CHUNK_SIZE) may return; 0 is end of file
ChunkSizes == {c \in {500} : c <= DOWNLOAD_CHUNK_SIZE}

\* model_response.getheader("Content-Length"): "" stands for None (no header)
ContentLengths == {"", "0", "1000", "abc"}

\* a progress line is due when more than this many seconds have passed
ReportInterval == 1

\* int(content_length), on the headers int() accepts
ParseInt(h) == CASE h = "0" -> 0 [] h = "1000" -> 1000

IsInt(h) == h \in {"0", "1000"}

\* (mutant) the fraction is not scaled to a percentage
Percent_fraction(bytes_downloaded, total_bytes) == bytes_downloaded \div total_bytes

\* int((bytes_downloaded / total_bytes) * 100): on the byte counts of this
\* model (multiples of 500 over 1000) the float product is exact, so the
\* result is the integer quotient
Percent(bytes_downloaded, total_bytes) == (bytes_downloaded * 100) \div total_bytes

\* f"Expecting {total_bytes} byte(s)\n"
ExpectChunk(n) == Chunk("Expecting byte(s)", n, 0, "", TRUE)
\* f"{int((bytes_downloaded / total_bytes) * 100)}%\n"
PercentChunk(p) == Chunk("%", p, 0, "", TRUE)
\* f"Bytes downloaded: {bytes_downloaded}\n"
BytesChunk(n) == Chunk("Bytes downloaded: ", n, 0, "", TRUE)
\* "Download complete\n"
DownloadCompleteChunk == Chunk("Download complete", 0, 0, "", TRUE)
\* "Model extracted\n"
ExtractedChunk == Chunk("Model extracted", 0, 0, "", TRUE)
\* "Return to models page to continue\n"
ReturnChunk == Chunk("Return to models page to continue", 0, 0, "", TRUE)

\* the line of the report that is due (lines 90-93)
ProgressChunk(l) ==
    IF l.total_bytes # <<>> /\ l.total_bytes[1] > 0
    THEN PercentChunk(Percent(l.bytes_downloaded, l.total_bytes[1]))
    ELSE BytesChunk(l.bytes_downloaded)

\* (mutant) a report is due after 1 second or more
ReportDue_ge(current_time, last_report_time) == (current_time - last_report_time) >= ReportInterval

\* (current_time - last_report_time) > 1
ReportDue(current_time, last_report_time) == (current_time - last_report_time) > ReportInterval

\* api_download entered; `return Response(download_model(), ...)`: the
\* generator exists, none of its code has run. download_model shares no
\* variable with any other request, so one download shows all it can do.
ApiDownload(r, k) ==
    /\ pc[r] = "idle"
    /\ Arrives(r)
    /\ \A q \in Requests : endpoint[q] # "download"
    /\ endpoint' = [endpoint EXCEPT ![r] = "download"]
    /\ model_id' = [model_id EXCEPT ![r] = k]
    /\ pc' = [pc EXCEPT ![r] = "d_response"]
    /\ UNCHANGED <<trainVars, stream, err, dl>>

\* First next(): MODELS.get(model_id) and the assert.
LookupModel(r) ==
    /\ pc[r] = "d_response"
    /\ IF model_id[r] \in MODELS
       THEN /\ pc' = [pc EXCEPT ![r] = "d_urlopen"]
            /\ UNCHANGED <<stream, err>>
       ELSE /\ err' = [err EXCEPT ![r] = "Unknown model"]
            /\ stream' = [stream EXCEPT ![r] = OnException(@, "Unknown model")]
            /\ pc' = [pc EXCEPT ![r] = "d_y_error"]
    /\ UNCHANGED <<trainVars, endpoint, model_id, dl>>

\* urlopen succeeds, TemporaryDirectory() is entered, the header is read:
\* with a header, total_bytes = int(header) and "Expecting ..." is yielded.
UrlOpen(r, h) ==
    /\ pc[r] = "d_urlopen"
    /\ h = "" \/ IsInt(h)
    /\ IF h = ""
       THEN /\ pc' = [pc EXCEPT ![r] = "d_start"]
            /\ UNCHANGED <<stream, dl>>
       ELSE /\ dl' = [dl EXCEPT ![r].total_bytes = <<ParseInt(h)>>]
            /\ stream' = [stream EXCEPT ![r] = Append(@, ExpectChunk(ParseInt(h)))]
            /\ pc' = [pc EXCEPT ![r] = "d_y_expect"]
    /\ UNCHANGED <<trainVars, endpoint, model_id, err>>

\* last_report_time = time.monotonic(); bytes_downloaded = 0; open(model_path)
StartDownload(r) ==
    /\ pc[r] \in {"d_start", "d_y_expect"}
    /\ dl' = [dl EXCEPT ![r].last_report_time = dl[r].monotonic,
                        ![r].bytes_downloaded = 0,
                        ![r].report_times = <<dl[r].monotonic>>]
    /\ pc' = [pc EXCEPT ![r] = "d_read"]
    /\ UNCHANGED <<trainVars, endpoint, model_id, stream, err>>

\* chunk = model_response.read(DOWNLOAD_CHUNK_SIZE)
ReadChunk(r, c) ==
    /\ pc[r] = "d_read"
    /\ c = 0 \/ (c \in ChunkSizes /\ dl[r].nchunks < MaxChunks)
    /\ dl' = [dl EXCEPT ![r].chunk = c,
                        ![r].nchunks = IF c = 0 THEN @ ELSE @ + 1]
    /\ pc' = [pc EXCEPT ![r] = "d_loop"]
    /\ UNCHANGED <<trainVars, endpoint, model_id, stream, err>>

\* One pass of the while body up to the next read: write, count, read the
\* clock (d seconds after the previous reading), report if due.
LoopBody(r, d) ==
    /\ pc[r] = "d_loop"
    /\ dl[r].chunk > 0
    /\ LET l == [dl[r] EXCEPT !.bytes_downloaded = @ + dl[r].chunk,
                              !.monotonic = @ + d,
                              !.read_times = Append(@, dl[r].monotonic + d)]
       IN IF ReportDue(l.monotonic, l.last_report_time)
          THEN /\ dl' = [dl EXCEPT ![r] = [l EXCEPT !.report_times = Append(@, l.monotonic)]]
               /\ stream' = [stream EXCEPT ![r] = Append(@, ProgressChunk(l))]
               /\ pc' = [pc EXCEPT ![r] = "d_y_progress"]
          ELSE /\ dl' = [dl EXCEPT ![r] = l]
               /\ pc' = [pc EXCEPT ![r] = "d_read"]
               /\ UNCHANGED stream
    /\ UNCHANGED <<trainVars, endpoint, model_id, err>>

\* Resumed after a progress line: last_report_time = current_time
ResumeProgress(r) ==
    /\ pc[r] = "d_y_progress"
    /\ dl' = [dl EXCEPT ![r].last_report_time = dl[r].monotonic]
    /\ pc' = [pc EXCEPT ![r] = "d_read"]
    /\ UNCHANGED <<trainVars, endpoint, model_id, stream, err>>

\* read() returned b"": the loop ends, the file is closed, "Download complete"
LoopEnd(r) ==
    /\ pc[r] = "d_loop"
    /\ dl[r].chunk = 0
    /\ stream' = [stream EXCEPT ![r] = Append(@, DownloadCompleteChunk)]
    /\ pc' = [pc EXCEPT ![r] = "d_y_complete"]
    /\ UNCHANGED <<trainVars, endpoint, model_id, err, dl>>

\* models_dir.mkdir, tarfile.open, extractall; "Model extracted"
Extract(r) ==
    /\ pc[r] = "d_y_complete"
    /\ stream' = [stream EXCEPT ![r] = Append(@, ExtractedChunk)]
    /\ pc' = [pc EXCEPT ![r] = "d_y_extracted"]
    /\ UNCHANGED <<trainVars, endpoint, model_id, err, dl>>

\* "Return to models page to continue"
YieldReturn(r) ==
    /\ pc[r] = "d_y_extracted"
    /\ stream' = [stream EXCEPT ![r] = Append(@, ReturnChunk)]
    /\ pc' = [pc EXCEPT ![r] = "d_y_return"]
    /\ UNCHANGED <<trainVars, endpoint, model_id, err, dl>>

\* The with block is left (temp_dir removed, response closed) or the except
\* clause has yielded its line: the generator returns.
DownloadEnd(r) ==
    /\ pc[r] \in {"d_y_return", "d_y_error"}
    /\ pc' = [pc EXCEPT ![r] = "done"]
    /\ UNCHANGED <<trainVars, endpoint, model_id, stream, err, dl>>

\* (mutant) "Model extracted" is yielded before the archive is extracted
CanRaise_extract_late(p, l) ==
    CASE p = "d_urlopen" -> {"urlopen error", "invalid literal for int()"}
      [] p \in {"d_start", "d_y_expect"} -> {"cannot open model.tar.gz"}
      [] p = "d_read" -> {"read error"}
      [] p = "d_loop" -> IF l.chunk > 0 THEN {"write error"} ELSE {}
      [] p = "d_y_extracted" -> {"mkdir error", "not a gzip file"}
      [] p = "d_y_return" -> {"cannot remove temp_dir"}
      [] OTHER -> {}

\* The exceptions the statement at position p may raise.
CanRaise(p, l) ==
    CASE p = "d_urlopen" -> {"urlopen error", "invalid literal for int()"}
      [] p \in {"d_start", "d_y_expect"} -> {"cannot open model.tar.gz"}
      [] p = "d_read" -> {"read error"}
      [] p = "d_loop" -> IF l.chunk > 0 THEN {"write error"} ELSE {}
      [] p = "d_y_complete" -> {"mkdir error", "not a gzip file"}
      [] p = "d_y_return" -> {"cannot remove temp_dir"}
      [] OTHER -> {}

\* A statement inside the try raises: `except Exception as err` yields
\* f"ERROR: {err}".
DownloadRaises(r, msg) ==
    /\ endpoint[r] = "download"
    /\ msg \in CanRaise(pc[r], dl[r])
    /\ err' = [err EXCEPT ![r] = msg]
    /\ stream' = [stream EXCEPT ![r] = OnException(@, msg)]
    /\ pc' = [pc EXCEPT ![r] = "d_y_error"]
    /\ UNCHANGED <<trainVars, endpoint, model_id, dl>>

DownloadYields ==
    {"d_y_expect", "d_y_progress", "d_y_complete", "d_y_extracted", "d_y_return", "d_y_error"}

\* The client is gone: the server closes the response iterable
\* (GeneratorExit at the yield is no Exception: no ERROR line).
CloseDownload(r) ==
    /\ pc[r] \in DownloadYields \cup {"d_response"}
    /\ pc' = [pc EXCEPT ![r] = "closed"]
    /\ UNCHANGED <<trainVars, endpoint, model_id, stream, err, dl>>

DownloadErrors ==
    {"Unknown model", "urlopen error", "invalid literal for int()",
     "cannot open model.tar.gz", "read error", "write error", "mkdir error",
     "not a gzip file", "cannot remove temp_dir"}

DownloadStep(r) ==
    \/ LookupModel(r)
    \/ \E h \in ContentLengths : UrlOpen(r, h)
    \/ StartDownload(r)
    \/ \E c \in ChunkSizes \cup {0} : ReadChunk(r, c)
    \/ \E d \in 1..MaxDelta : LoopBody(r, d)
    \/ ResumeProgress(r)
    \/ LoopEnd(r)
    \/ Extract(r)
    \/ YieldReturn(r)
    \/ DownloadEnd(r)

DownloadNext ==
    \E r \in Requests :
        \/ \E k \in DownloadIds : ApiDownload(r, k)
        \/ DownloadStep(r)
        \/ \E msg \in DownloadErrors : DownloadRaises(r, msg)
        \/ CloseDownload(r)

DownloadSpec == Init /\ [][DownloadNext]_vars

\* ------------------------------------------------------------------ next
TrainHandlerStep(r) ==
    \/ Acquire(r)
    \/ Invalidate(r)
    \/ Release(r)

TrainStreamStep(r) ==
    \/ TrainBegin(r)
    \/ StartThread(r)
    \/ GetLine(r)
    \/ GetSentinel(r)
    \/ ResumeLine(r)
    \/ TrainEnd(r)

WorkerStep(r) ==
    \/ Log(r)
    \/ BodyReturns(r)
    \/ \E msg \in WorkerErrors : BodyRaises(r, msg)
    \/ PutSentinel(r)

TrainNext ==
    \E r \in Requests :
        \/ \E k \in TrainIds : ApiTrain(r, k)
        \/ TrainHandlerStep(r)
        \/ TrainStreamStep(r)
        \/ StartThreadFails(r)
        \/ CloseTrain(r)
        \/ WorkerStep(r)

TrainSpec == Init /\ [][TrainNext]_vars

Next == TrainNext \/ DownloadNext

Spec == Init /\ [][Next]_vars

\* Fairness for the liveness claims: the scheduler runs every started thread,
\* the job body ends (it returns or raises), and the server keeps calling
\* next() on the response: the system does not stop while one of these steps
\* is possible. A client may still disconnect (CloseTrain) and Thread.start()
\* may still fail, neither is forced.
Fairness ==
    WF_vars(\E r \in Requests : TrainHandlerStep(r) \/ TrainStreamStep(r) \/ WorkerStep(r))

LiveSpec == TrainSpec /\ Fairness

\* As LiveSpec, but the job body of request 1 may run forever and its
\* response need not be read.
KeySpec ==
    /\ TrainSpec
    /\ WF_vars(\/ \E r \in Requests : TrainHandlerStep(r)
               \/ TrainStreamStep(2)
               \/ WorkerStep(2))

\* ---------------------------------------------------------------- claims
HasKind(s, kind) == \E i \in 1..Len(s) : s[i].kind = kind

CountKind(s, kind) == Cardinality({i \in 1..Len(s) : s[i].kind = kind})

Last(s) == s[Len(s)]

\* the records of job r's own body among the chunks of r's response
OwnLines(r) == SelectSeq(stream[r], LAMBDA c : c.kind = "log" /\ c.n = r)

\* C1 Sentinel liveness: once the train_model thread of a request runs, and
\* whether its body returns or raises, the drain loop gets the sentinel and the
\* response ends ("Training complete" yielded, generator finished), unless the
\* client stopped reading (the generator was closed).
SentinelLiveness ==
    \A r \in Requests :
        (worker[r] = "body") ~>
            \/ pc[r] = "closed"
            \/ pc[r] = "done" /\ worker[r] = "exited" /\ HasKind(stream[r], "Training complete")

\* C1 witness: a job body that raised, whose consumer got the sentinel and finished.
SentinelLivenessWitness ==
    \E r \in Requests :
        /\ outcome[r] \in WorkerErrors
        /\ emitted[r] > 0
        /\ pc[r] = "done"
        /\ HasKind(stream[r], "Training complete")

\* C2 Crash containment (as claimed): a training job whose body raised with
\* message M has a response that ends in the one line "ERROR: M" and never
\* holds "Training complete".
CrashContainment ==
    \A r \in Requests :
        (outcome[r] \in WorkerErrors /\ pc[r] = "done") =>
            /\ ~HasKind(stream[r], "Training complete")
            /\ CountKind(stream[r], "ERROR: ") = 1
            /\ Last(stream[r]) = ErrorChunk(outcome[r])

\* a training job body is running (train_model has not returned)
Running(r) == worker[r] \in {"body", "finally"}

\* C3 Mutual exclusion (as claimed): two requests for the same model id never
\* have their training job bodies running at the same time.
MutualExclusion ==
    \A r1, r2 \in Requests :
        (r1 # r2 /\ IsTrain(r1) /\ IsTrain(r2) /\ model_id[r1] = model_id[r2]) =>
            ~(Running(r1) /\ Running(r2))

\* the job of request r has started or its response has produced a line
Started(r) == worker[r] # "none" \/ stream[r] # <<>>

\* C4 Invalidate before start: a key leaves state.transcribers only in a step
\* of a request for that very key that holds the lock before and after the
\* step, whose job has not started and whose response has no line yet; and
\* whenever a request's job has started or its response has a line, its key is
\* no longer cached.
InvalidateBeforeStart ==
    /\ [](\A r \in Requests : (IsTrain(r) /\ Started(r)) => model_id[r] \notin transcribers)
    /\ [][\A k \in TrainIds :
            (k \in transcribers /\ k \notin transcribers') =>
                \E r \in Requests :
                    /\ lock = r /\ lock' = r
                    /\ model_id[r] = k
                    /\ pc[r] = "t_locked"
                    /\ ~Started(r)]_vars

\* C4 witness: a job runs, its key is gone from the cache, another key is still cached.
InvalidateBeforeStartWitness ==
    \E r \in Requests :
        /\ worker[r] = "body"
        /\ model_id[r] \notin transcribers
        /\ transcribers # {}

\* C5 Key independence: the lock is held only by a request that is inside the
\* `async with` block and has no job yet, never by one whose job is started,
\* streaming or running; and a request for K2 that waits for the lock behind a
\* request for K1 gets through to the end of its own response even when the
\* job body for K1 never finishes.
KeyIndependence ==
    /\ [](\A r \in Requests : lock = r => (pc[r] \in {"t_locked", "t_release"} /\ ~Started(r)))
    /\ (pc[2] = "t_acquire" /\ model_id[2] # model_id[1]) ~> (pc[2] \in {"done", "closed"})

\* C5 witness: the request for K2 has finished while the job body for K1 still runs.
KeyIndependenceWitness ==
    /\ model_id[1] # model_id[2]
    /\ worker[1] = "body"
    /\ pc[2] = "done"
    /\ worker[2] = "exited"

\* C6 Order preservation: the records of a job's own body appear in its
\* response in the order they were logged, from the first on, none twice and
\* none skipped; once the sentinel was received ("Training complete"), every
\* record the body logged has been delivered before it.
OrderPreservation ==
    \A r \in Requests :
        /\ Len(OwnLines(r)) <= emitted[r]
        /\ \A i \in 1..Len(OwnLines(r)) : OwnLines(r)[i].m = i
        /\ HasKind(stream[r], "Training complete") =>
              /\ Len(OwnLines(r)) = emitted[r]
              /\ Last(stream[r]).kind = "Training complete"

\* C6 witness: a job logged two records and its consumer received the sentinel.
OrderPreservationWitness ==
    \E r \in Requests :
        /\ emitted[r] >= 2
        /\ HasKind(stream[r], "Training complete")

\* C7 Disconnect tolerance: once the generator of a request was closed, the
\* final log_queue.put(None) of its still-running job is never blocked by a full
\* queue, and the thread is never stuck before it.
DisconnectTolerance ==
    \A r \in Requests :
        (pc[r] = "closed" /\ Running(r)) =>
            /\ ~Full(log_queue[r])
            /\ worker[r] = "finally" => ENABLED PutSentinel(r)

\* C7 witness: the client left after one of two records; the job logged the
\* second one afterwards and has put its sentinel.
DisconnectToleranceWitness ==
    \E r \in Requests :
        /\ pc[r] = "closed"
        /\ worker[r] = "exited"
        /\ emitted[r] >= 2
        /\ Len(stream[r]) = 2
        /\ Last(log_queue[r]) = None

\* C8 No cancellation by the client (as claimed): a request whose response has
\* produced "Training started" and was then closed by the client has its
\* training job started all the same.
NoCancellation ==
    \A r \in Requests :
        (IsTrain(r) /\ pc[r] = "closed" /\ stream[r] # <<>>) => worker[r] # "none"

\* the line that marks success on each endpoint
SuccessMarker(r) == IF IsTrain(r) THEN "Training complete" ELSE "Return to models page to continue"

\* C9 Well-terminated stream: a response that was read to its end has at least
\* one line and its last line is the endpoint's success marker or an ERROR line.
WellTerminated ==
    \A r \in Requests :
        pc[r] = "done" =>
            /\ stream[r] # <<>>
            /\ Last(stream[r]).kind \in {SuccessMarker(r), "ERROR: "}

\* C9 witness: a download that failed after some lines and a training response
\* read to its end.
WellTerminatedWitness ==
    \E r1, r2 \in Requests :
        /\ IsDownload(r1) /\ pc[r1] = "done" /\ err[r1] # "" /\ Len(stream[r1]) > 1
        /\ IsTrain(r2) /\ pc[r2] = "done"

\* the success lines that come after the step that raises msg
LinesAfter(msg) ==
    CASE msg \in {"mkdir error", "not a gzip file"} ->
            {"Model extracted", "Return to models page to continue"}
      [] msg = "cannot remove temp_dir" -> {}
      [] OTHER ->
            {"Download complete", "Model extracted", "Return to models page to continue"}

\* C10 Download failure reporting: when a step of download_model has raised,
\* the stream holds exactly one ERROR line, it is the last line, it carries the
\* message of the exception and no success line that comes after the failing
\* step is in the stream; when no step has raised the stream has no ERROR line.
DownloadFailureReporting ==
    \A r \in Requests :
        IsDownload(r) =>
            IF err[r] # ""
            THEN /\ CountKind(stream[r], "ERROR: ") = 1
                 /\ Last(stream[r]) = ErrorChunk(err[r])
                 /\ \A kind \in LinesAfter(err[r]) : ~HasKind(stream[r], kind)
            ELSE ~HasKind(stream[r], "ERROR: ")

\* C10 witness: the archive could not be extracted after a complete download.
DownloadFailureReportingWitness ==
    \E r \in Requests :
        /\ err[r] = "not a gzip file"
        /\ HasKind(stream[r], "Download complete")
        /\ pc[r] = "done"

\* the progress lines of a stream
IsProgress(c) == c.kind \in {"%", "Bytes downloaded: "}

ProgressLines(s) == SelectSeq(s, IsProgress)

\* C11 Download progress throttling: more than 1 second of monotonic time lies
\* between the start of the download loop and the first progress line and
\* between any two consecutive progress lines, and a download has yielded at
\* most one progress line per chunk it received.
ProgressThrottling ==
    \A r \in Requests :
        IsDownload(r) =>
            LET t == dl[r].report_times
                n == Len(ProgressLines(stream[r]))
            IN /\ n = (IF t = <<>> THEN 0 ELSE Len(t) - 1)
               /\ \A i \in 1..(Len(t) - 1) : t[i + 1] - t[i] > ReportInterval
               /\ n <= Len(dl[r].read_times)
               /\ Len(dl[r].read_times) <= dl[r].nchunks

\* C11 witness: a download read to its end that received two chunks and
\* yielded a progress line for each.
ProgressThrottlingWitness ==
    \E r \in Requests :
        /\ Len(ProgressLines(stream[r])) = 2
        /\ Len(dl[r].read_times) = 2
        /\ pc[r] = "done"

\* the lines of a successful download of 1000 bytes announced as 1000 bytes,
\* with the two progress lines p1 and p2
ScenarioStream(p1, p2) ==
    <<ExpectChunk(1000), p1, p2, DownloadCompleteChunk, ExtractedChunk, ReturnChunk>>

\* a download that succeeded, of 1000 bytes with Content-Length 1000, read in
\* two chunks, the second read more than 1 second after the first
Scenario(r) ==
    /\ IsDownload(r)
    /\ pc[r] = "done"
    /\ err[r] = ""
    /\ dl[r].total_bytes = <<1000>>
    /\ dl[r].bytes_downloaded = 1000
    /\ Len(dl[r].read_times) = 2
    /\ dl[r].read_times[2] - dl[r].read_times[1] > ReportInterval

\* C12 Download success scenario (as claimed): the stream of such a download is
\* "Expecting 1000 byte(s)", two "NN%" lines, "Download complete", "Model
\* extracted", "Return to models page to continue".
DownloadScenario ==
    \A r \in Requests :
        Scenario(r) =>
            /\ Len(stream[r]) = 6
            /\ \E p1, p2 \in 0..100 : stream[r] = ScenarioStream(PercentChunk(p1), PercentChunk(p2))

\* C12 amended: when moreover the first chunk is read more than 1 second after
\* the start of the download loop, the stream is exactly "Expecting 1000
\* byte(s)", "50%", "100%", "Download complete", "Model extracted", "Return to
\* models page to continue" (the chunks of this model are 500 bytes long).
DownloadScenarioAmended ==
    \A r \in Requests :
        (Scenario(r) /\ dl[r].read_times[1] - dl[r].report_times[1] > ReportInterval) =>
            stream[r] = ScenarioStream(PercentChunk(50), PercentChunk(100))

\* C12 witness: the scenario, with the first chunk more than 1 second after the start.
DownloadScenarioWitness ==
    \E r \in Requests :
        /\ Scenario(r)
        /\ dl[r].read_times[1] - dl[r].report_times[1] > ReportInterval

\* C13 Single final sentinel (as claimed): once a job has put its sentinel on
\* its queue, no further item is ever added to that queue.
SingleFinalSentinel ==
    [][\A r \in Requests :
          worker[r] = "exited" => Len(log_queue'[r]) <= Len(log_queue[r])]_vars

\* C14 Channel isolation (as claimed): every log line in a request's response
\* was logged by that request's own training job body.
ChannelIsolation ==
    \A r \in Requests :
        \A i \in 1..Len(stream[r]) :
            stream[r][i].kind = "log" => stream[r][i].n = r

\* the requests whose do_training generator is between its first step and its end
Streaming == {r \in Requests : IsTrain(r) /\ pc[r] \in TrainYields \cup {"t_get"}}

\* C15 No orphaned log consumer: the handlers attached to the "rhasspy_speech"
\* logger are exactly those of the responses being streamed; so none is left
\* once no training response is streamed, whichever way the generators ended,
\* and there are never more handlers than responses being streamed.
NoOrphanedHandler ==
    /\ handlers = Streaming
    /\ Cardinality(handlers) <= Cardinality(Streaming)

\* C15 witness: one generator was closed by its client after its first line,
\* another one ran to its end, and the logger holds no handler.
NoOrphanedHandlerWitness ==
    \E r1, r2 \in Requests :
        /\ pc[r1] = "closed" /\ stream[r1] # <<>>
        /\ IsTrain(r2) /\ pc[r2] = "done"
        /\ handlers = {}

\* C16 Training stream shape on success (as claimed): the response of a job
\* that succeeded, read to its end, is "Training started", then only log lines
\* of that job, then "Training complete"; "Training complete" appears once, no
\* ERROR line appears, and the job body logged nothing before "Training
\* started" was yielded.
TrainingStreamShape ==
    /\ \A r \in Requests : (IsTrain(r) /\ stream[r] = <<>>) => emitted[r] = 0
    /\ \A r \in Requests :
        (IsTrain(r) /\ pc[r] = "done" /\ outcome[r] = "returned") =>
            /\ Len(stream[r]) >= 2
            /\ stream[r][1] = StartedChunk
            /\ Last(stream[r]) = CompleteChunk
            /\ CountKind(stream[r], "Training complete") = 1
            /\ ~HasKind(stream[r], "ERROR: ")
            /\ \A i \in 2..(Len(stream[r]) - 1) :
                  stream[r][i].kind = "log" /\ stream[r][i].n = r

\* C17 Guard release: the lock is held exactly by the request that is inside
\* the `async with` block (it has acquired and not yet left the block), so no
\* request that returned its response, ended or was abandoned holds it; and a
\* request that waits for the lock eventually gets it.
GuardRelease ==
    /\ [](lock \in Requests \cup {NoOne})
    /\ [](\A r \in Requests : lock = r <=> pc[r] \in {"t_locked", "t_release"})
    /\ \A r \in Requests : (pc[r] = "t_acquire") ~> (lock = r)

\* C17 witness: a request whose client left holds nothing, and a later request
\* has the lock.
GuardReleaseWitness ==
    \E r1, r2 \in Requests :
        /\ pc[r1] = "closed"
        /\ r1 < r2
        /\ lock = r2

\* C18 Newline-terminated chunks (as claimed): every chunk yielded by either
\* endpoint ends in a newline.
NewlineTerminated ==
    \A r \in Requests :
        \A i \in 1..Len(stream[r]) : stream[r][i].nl

\* the number of sentinels in a queue
Sentinels(q) == Cardinality({i \in 1..Len(q) : q[i] = None})

\* C19 Sentinel isolation: a sentinel is added to a queue only by the finally
\* clause of the job that owns the queue, a queue never holds two, and a drain
\* loop has ended ("Training complete") only if its own job body has ended.
SentinelIsolation ==
    /\ [](\A r \in Requests : Sentinels(log_queue[r]) <= 1)
    /\ [](\A r \in Requests : HasKind(stream[r], "Training complete") => worker[r] = "exited")
    /\ [][\A r \in Requests :
            Sentinels(log_queue'[r]) > Sentinels(log_queue[r]) =>
                (worker[r] = "finally" /\ worker'[r] = "exited")]_vars

\* C19 witness: job 1 has ended and its response is complete, while request 2,
\* which has received a record of job 1, is still draining its queue with its
\* own job running.
SentinelIsolationWitness ==
    /\ pc[1] = "done" /\ worker[1] = "exited"
    /\ pc[2] = "t_get" /\ worker[2] = "body"
    /\ \E i \in 1..Len(stream[2]) : stream[2][i].kind = "log" /\ stream[2][i].n = 1

====
